---- MODULE Spec2Model ----
(***************************************************************************)
(* Model of scripts/rules/morph_model.py: the corpus line parser, the      *)
(* span/label codec (Morpheme/Word encoders and the decoder                *)
(* MorphemModel._transform_classification), the corpus ingestion loop and  *)
(* the scorer measure_quality.                                             *)
(*                                                                         *)
(* Strings are sequences of tokens.  A label such as 'B-ROOT' is the       *)
(* sequence <<"B", "ROOT">>, so that 'S-' + x is <<"S">> \o x and          *)
(* x.startswith('B-') is a test on the first token.  A corpus line is a    *)
(* sequence of tokens too: letters, the separators TAB, ":" and "/", and   *)
(* the names of kinds and of speech parts, each with its length in         *)
(* characters.                                                             *)
(***************************************************************************)
EXTENDS Integers, Sequences, FiniteSets, TLC

VARIABLES
    pc,                 \* position of the running operation
    word,               \* codec: the Word being built and encoded
    full,               \* codec: result of Word.get_labels()
    simple,             \* codec: result of Word.get_simple_labels()
    decoded,            \* codec: result of _transform_classification(simple)
    prediction,         \* classify: cutted_prediction, class ids of one word
    parse,              \* classify: result of _transform_classification
    str_repr,           \* parse_word: the line given
    parsed,             \* parse_word: what the call returned or raised
    data,               \* ingestion: the lines of the train set file
    num,                \* ingestion: number of lines consumed
    train_part,         \* ingestion: the loaded words
    max_len,            \* ingestion: longest loaded word
    raised,             \* ingestion / scorer: exception that ended the run
    sc                  \* scorer: arguments, locals and result of measure_quality

vars == <<pc, word, full, simple, decoded, prediction, parse, str_repr, parsed,
          data, num, train_part, max_len, raised, sc>>

-----------------------------------------------------------------------------
(* Bounds of the model *)

\* a Word has at most this many morphemes
MaxMorphemes == 2

\* a morpheme text has at most this many letters
MaxLen == 3

\* a classifier output has at most this many letters
MaxParse == 3

\* a corpus file has at most this many lines
MaxLines == 3

\* a scored dataset has at most this many words
MaxWords == 2

-----------------------------------------------------------------------------
(* Python values *)

\* a call returns a value, returns None or raises
Ok(v) == [outcome |-> "returned", val |-> v]

ReturnedNone == [outcome |-> "None", val |-> <<>>]

Raise(e) == [outcome |-> e, val |-> <<>>]

\* the value None, where a string is expected
PyNone == <<"<None>">>

Repeat(x, n) == [i \in 1..n |-> x]

\* s[1:]
SliceFrom1(s) == IF Len(s) = 0 THEN <<>> ELSE Tail(s)

\* s[1:-1]
SliceInner(s) == IF Len(s) <= 2 THEN <<>> ELSE SubSeq(s, 2, Len(s) - 1)

RECURSIVE Flatten(_)
Flatten(ss) == IF ss = <<>> THEN <<>> ELSE Head(ss) \o Flatten(Tail(ss))

RECURSIVE SumSeq(_)
SumSeq(s) == IF s = <<>> THEN 0 ELSE Head(s) + SumSeq(Tail(s))

Max(a, b) == IF a >= b THEN a ELSE b

-----------------------------------------------------------------------------
(* Label vocabulary *)

\* the member names of MorphemeLabel
MorphemeLabel ==
    {"UNKN", "PREF", "ROOT", "SUFF", "END", "LINK", "HYPH", "POSTFIX", "NONE"}

\* MorphemeLabel member -> its .value
LabelValue(label) == IF label = "NONE" THEN PyNone ELSE <<label>>

PARTS_MAPPING ==
    ( <<"UNKN">> :> 0 ) @@ ( <<"PREF">> :> 1 ) @@ ( <<"ROOT">> :> 2 ) @@
    ( <<"SUFF">> :> 3 ) @@ ( <<"END">> :> 4 ) @@ ( <<"LINK">> :> 5 ) @@
    ( <<"HYPH">> :> 6 ) @@ ( <<"POSTFIX">> :> 7 ) @@ ( <<"B", "SUFF">> :> 8 ) @@
    ( <<"B", "PREF">> :> 9 ) @@ ( <<"B", "ROOT">> :> 10 )

\* reverse_mapping = {v: k for k, v in PARTS_MAPPING.items()}
reverse_mapping(n) == CHOOSE k \in DOMAIN PARTS_MAPPING : PARTS_MAPPING[k] = n

-----------------------------------------------------------------------------
(* Morpheme and Word *)

Morpheme(part_text, label, begin_pos) ==
    [ part_text |-> part_text,
      length    |-> Len(part_text),
      begin_pos |-> begin_pos,
      label     |-> label,
      end_pos   |-> begin_pos + Len(part_text) ]

Morpheme_get_labels(m) ==
    LET v == LabelValue(m.label) IN
    IF v = PyNone THEN Raise("TypeError")
    ELSE IF m.length = 1 THEN Ok(<< <<"S">> \o v >>)
    ELSE Ok( << <<"B">> \o v >>
             \o [i \in 1..Len(SliceInner(m.part_text)) |-> <<"M">> \o v]
             \o << <<"E">> \o v >> )

Morpheme_get_simple_labels(m) ==
    LET v == LabelValue(m.label) IN
    IF m.label \in {"SUFF", "PREF", "ROOT"}
    THEN << <<"B">> \o v >>
         \o (IF m.length > 1
             THEN [i \in 1..Len(SliceFrom1(m.part_text)) |-> v]
             ELSE <<>>)
    ELSE Repeat(v, m.length)

Word(morphemes, speech_part) == [morphemes |-> morphemes, sp |-> speech_part]

Word_append_morpheme(w, morpheme) ==
    [w EXCEPT !.morphemes = Append(w.morphemes, morpheme)]

Word_get_word(w) ==
    Flatten([i \in 1..Len(w.morphemes) |-> w.morphemes[i].part_text])

Word_get_labels(w) ==
    LET each == [i \in 1..Len(w.morphemes) |-> Morpheme_get_labels(w.morphemes[i])] IN
    IF \E i \in 1..Len(each) : each[i].outcome # "returned"
    THEN Raise("TypeError")
    ELSE Ok(Flatten([i \in 1..Len(each) |-> each[i].val]))

Word_get_simple_labels(w) ==
    Flatten([i \in 1..Len(w.morphemes) |-> Morpheme_get_simple_labels(w.morphemes[i])])

Word_len(w) == SumSeq([i \in 1..Len(w.morphemes) |-> w.morphemes[i].length])

-----------------------------------------------------------------------------
(* Decoder: MorphemModel._transform_classification *)

startswith_B(letter) == Len(letter) >= 2 /\ letter[1] = "B"

ExtendsRun_IgnoreBegin(letter, prev) ==
    \/ letter = <<"SUFF">> /\ prev = <<"B", "SUFF">>
    \/ letter = <<"PREF">> /\ prev = <<"B", "PREF">>
    \/ letter = <<"ROOT">> /\ prev = <<"B", "ROOT">>
    \/ letter = prev

\* the letter goes to current_part (TRUE) or closes it and opens a new part (FALSE)
ExtendsRun(letter, prev) ==
    \/ letter = <<"SUFF">> /\ prev = <<"B", "SUFF">>
    \/ letter = <<"PREF">> /\ prev = <<"B", "PREF">>
    \/ letter = <<"ROOT">> /\ prev = <<"B", "ROOT">>
    \/ ~(letter # prev \/ startswith_B(letter))

\* the first loop, from position index (1-based) on
RECURSIVE SplitParts(_, _, _, _)
SplitParts(p, index, parts, current_part) ==
    IF index > Len(p)
    THEN IF current_part # <<>> THEN Append(parts, current_part) ELSE parts
    ELSE IF ExtendsRun(p[index], p[index - 1])
         THEN SplitParts(p, index + 1, parts, Append(current_part, p[index]))
         ELSE SplitParts(p, index + 1, Append(parts, current_part), <<p[index]>>)

RelabelPart_KeepBegin(part) ==
    IF Len(part) = 1
    THEN << <<"S">> \o part[1] >>
    ELSE [i \in 1..Len(part) |->
            IF i = 1 THEN <<"B">> \o part[1]
            ELSE IF i = Len(part) THEN <<"E">> \o part[i]
            ELSE <<"M">> \o part[i]]

\* the second loop's body: one part, relabelled
RelabelPart(part) ==
    LET first == IF part[1] = <<"B", "PREF">> THEN <<"PREF">>
                 ELSE IF part[1] = <<"B", "SUFF">> THEN <<"SUFF">>
                 ELSE IF part[1] = <<"B", "ROOT">> THEN <<"ROOT">>
                 ELSE part[1]
        stripped == [part EXCEPT ![1] = first]
    IN  IF Len(stripped) = 1
        THEN << <<"S">> \o stripped[1] >>
        ELSE [i \in 1..Len(stripped) |->
                IF i = 1 THEN <<"B">> \o stripped[1]
                ELSE IF i = Len(stripped) THEN <<"E">> \o stripped[i]
                ELSE <<"M">> \o stripped[i]]

transform_classification(p) ==
    IF p = <<>> THEN Raise("IndexError")
    ELSE IF \E i \in 2..Len(p) : p[i] = PyNone /\ p[i - 1] = PyNone
         THEN Raise("AttributeError")
    ELSE IF \E i \in 1..Len(p) : p[i] = PyNone THEN Raise("TypeError")
    ELSE LET parts == SplitParts(p, 2, <<>>, <<p[1]>>) IN
         Ok(Flatten([k \in 1..Len(parts) |-> RelabelPart(parts[k])]))

-----------------------------------------------------------------------------
(* Strings of the corpus *)

TAB == "\t"

NL == "\n"

\* len() of a one-token string: the names count their characters
CharLen(tok) ==
    CASE tok \in {"END", "ADJ", "ADV", "BAD"} -> 3
      [] tok \in {"UNKN", "PREF", "ROOT", "SUFF", "LINK", "HYPH", "NONE",
                  "VERB", "NOUN", "GRND", "PART"} -> 4
      [] tok = "ADVERB" -> 6
      [] tok = "POSTFIX" -> 7
      [] OTHER -> 1

\* len(s)
StrLen(s) == SumSeq([i \in 1..Len(s) |-> CharLen(s[i])])

\* sub in s, for sub a tag name: 'ADVERB' holds both 'ADV' and 'VERB'
Contains(s, sub) ==
    \E i \in 1..Len(s) :
        \/ s[i] = sub
        \/ s[i] = "ADVERB" /\ sub \in {"ADV", "VERB"}

\* s.count(sep)
Count(s, sep) == Cardinality({i \in 1..Len(s) : s[i] = sep})

\* s.split(sep), from position i on, cur the piece being read
RECURSIVE SplitFrom(_, _, _, _, _)
SplitFrom(s, sep, i, cur, acc) ==
    IF i > Len(s) THEN Append(acc, cur)
    ELSE IF s[i] = sep THEN SplitFrom(s, sep, i + 1, <<>>, Append(acc, cur))
    ELSE SplitFrom(s, sep, i + 1, Append(cur, s[i]), acc)

Split(s, sep) == SplitFrom(s, sep, 1, <<>>, <<>>)

Whitespace == {TAB, NL, " "}

\* s.strip()
RECURSIVE Strip(_)
Strip(s) ==
    IF s = <<>> THEN s
    ELSE IF Head(s) \in Whitespace THEN Strip(Tail(s))
    ELSE IF s[Len(s)] \in Whitespace THEN Strip(SubSeq(s, 1, Len(s) - 1))
    ELSE s

-----------------------------------------------------------------------------
(* Corpus line parser *)

parse_morpheme(part, position) ==
    LET pieces == Split(part, ":") IN
    IF Len(pieces) # 2 THEN Raise("ValueError")
    ELSE LET text  == pieces[1]
             label == pieces[2]
         IN  IF Len(label) = 1 /\ label[1] \in MorphemeLabel
             THEN Ok(Morpheme(text, label[1], position))
             ELSE Raise("KeyError")

\* the speech part of a line of four fields
ClassOf(class_info) ==
    IF Contains(class_info, "ADJ") THEN Ok(<<"ADJ">>)
    ELSE IF Contains(class_info, "VERB") THEN Ok(<<"VERB">>)
    ELSE IF Contains(class_info, "NOUN") THEN Ok(<<"NOUN">>)
    ELSE IF Contains(class_info, "GRND") THEN Ok(<<"GRND">>)
    ELSE IF Contains(class_info, "ADV") THEN Ok(<<"ADV">>)
    ELSE IF Contains(class_info, "PART") THEN Ok(<<"PART">>)
    ELSE Raise("Exception: Unknown class")

\* the unpacking of the fields: wordform, word_parts, sp
SplitFields(line) ==
    LET fields == Split(line, TAB) IN
    IF Count(line, TAB) = 3
    THEN LET sp == ClassOf(fields[4]) IN
         IF sp.outcome # "returned" THEN sp
         ELSE Ok([wordform |-> fields[1], word_parts |-> fields[2], sp |-> sp.val])
    ELSE IF Count(line, TAB) = 2
    THEN Ok([wordform |-> fields[1], word_parts |-> fields[2], sp |-> fields[3]])
    ELSE IF Len(fields) = 2
    THEN Ok([wordform |-> fields[1], word_parts |-> fields[2], sp |-> <<"X">>])
    ELSE Raise("ValueError")

IsAmbiguous_ColonOnly(wordform) == Contains(wordform, ":")

IsAmbiguous(wordform) == Contains(wordform, ":") \/ Contains(wordform, "/")

\* the loop over parts, from part k on
RECURSIVE ParseParts(_, _, _, _)
ParseParts(parts, k, morphemes, global_index) ==
    IF k > Len(parts) THEN Ok(morphemes)
    ELSE LET m == parse_morpheme(parts[k], global_index) IN
         IF m.outcome # "returned" THEN m
         ELSE ParseParts(parts, k + 1, Append(morphemes, m.val),
                         global_index + StrLen(parts[k]))

parse_word(line) ==
    LET f == SplitFields(line) IN
    IF f.outcome # "returned" THEN f
    ELSE IF IsAmbiguous(f.val.wordform) THEN ReturnedNone
    ELSE LET morphemes == ParseParts(Split(f.val.word_parts, "/"), 1, <<>>, 0) IN
         IF morphemes.outcome # "returned" THEN morphemes
         ELSE Ok(Word(morphemes.val, f.val.sp))

-----------------------------------------------------------------------------
(* Scorer: measure_quality *)

SE == { <<x, y>> : x \in {"S", "E"}, y \in {"ROOT", "PREF", "SUFF", "END", "LINK", "None"} }

\* [i for i in range(len(labels)) if labels[i] in SE], from index i (0-based) on
RECURSIVE BoundariesFrom(_, _)
BoundariesFrom(labels, i) ==
    IF i >= Len(labels) THEN <<>>
    ELSE (IF labels[i + 1] \in SE THEN <<i>> ELSE <<>>) \o BoundariesFrom(labels, i + 1)

Boundaries(labels) == BoundariesFrom(labels, 0)

\* [x for x in boundaries if x in pred_boundaries]
Common(boundaries, pred_boundaries) ==
    SelectSeq(boundaries, LAMBDA x : \E j \in 1..Len(pred_boundaries) : pred_boundaries[j] = x)

Min(a, b) == IF a <= b THEN a ELSE b

\* sum(int(x == y) for x, y in zip(corr, pred))
EqualCount(corr, pred) ==
    Cardinality({i \in 1..Min(Len(corr), Len(pred)) : corr[i] = pred[i]})

WordCounts_FalsePositivesFromGold(corr, pred) ==
    LET boundaries      == Boundaries(corr)
        pred_boundaries == Boundaries(pred)
        common          == Common(boundaries, pred_boundaries)
    IN  [ boundaries |-> boundaries, pred_boundaries |-> pred_boundaries,
          TP |-> Len(common),
          FN |-> Len(boundaries) - Len(common),
          FP |-> Len(boundaries) - Len(common) ]

\* what one word adds to the counters
WordCounts(corr, pred) ==
    LET boundaries      == Boundaries(corr)
        pred_boundaries == Boundaries(pred)
        common          == Common(boundaries, pred_boundaries)
    IN  [ boundaries |-> boundaries, pred_boundaries |-> pred_boundaries,
          TP |-> Len(common),
          FN |-> Len(boundaries) - Len(common),
          FP |-> Len(pred_boundaries) - Len(common) ]

\* zip(targets, predicted_targets, words) stops with the shortest
ZipLen(a, b, c) == Min(Len(a), Min(Len(b), Len(c)))

\* a quotient of the result is kept as numerator and denominator;
\* TP / (TP + 0.5*(FP+FN)) is 2*TP over 2*TP + FP + FN
Quotient(n, d) == [n |-> n, d |-> d]

Metrics(s) ==
    [ Precision     |-> Quotient(s.TP, s.TP + s.FP),
      Recall        |-> Quotient(s.TP, s.TP + s.FN),
      F1            |-> Quotient(2 * s.TP, 2 * s.TP + s.FP + s.FN),
      Accuracy      |-> Quotient(s.equal, s.total),
      WordAccuracy  |-> Quotient(s.corr_words, Len(s.targets)) ]

MetricNames == {"Precision", "Recall", "F1", "Accuracy", "WordAccuracy"}

-----------------------------------------------------------------------------
(* Values of the variables an operation does not use *)

NoResult == Raise("not called")

EmptyWord == Word(<<>>, <<"X">>)

CodecIdle ==
    /\ word = EmptyWord /\ full = NoResult /\ simple = <<>> /\ decoded = NoResult

ClassifyIdle == prediction = <<>> /\ parse = NoResult

ParseIdle == str_repr = <<>> /\ parsed = NoResult

IngestIdle == data = <<>> /\ num = 0 /\ train_part = <<>> /\ max_len = 0

ScoreIdle == sc = [called |-> FALSE]

-----------------------------------------------------------------------------
(* The codec: a Word is built morpheme by morpheme, encoded both ways and  *)
(* its simple encoding decoded                                             *)

Letters == {"a"}

Texts == UNION {[1..n -> Letters] : n \in 0..MaxLen}

InitCodec ==
    /\ pc = "build"
    /\ CodecIdle /\ ClassifyIdle /\ ParseIdle /\ IngestIdle /\ ScoreIdle
    /\ raised = "none"

AppendMorpheme ==
    /\ pc = "build"
    /\ Len(word.morphemes) < MaxMorphemes
    /\ \E part_text \in Texts, label \in MorphemeLabel :
          word' = Word_append_morpheme(word, Morpheme(part_text, label, Word_len(word)))
    /\ UNCHANGED <<pc, full, simple, decoded, prediction, parse, str_repr, parsed,
                   data, num, train_part, max_len, raised, sc>>

GetLabels ==
    /\ pc = "build"
    /\ full' = Word_get_labels(word)
    /\ pc' = "full"
    /\ UNCHANGED <<word, simple, decoded, prediction, parse, str_repr, parsed,
                   data, num, train_part, max_len, raised, sc>>

GetSimpleLabels ==
    /\ pc = "full"
    /\ simple' = Word_get_simple_labels(word)
    /\ pc' = "simple"
    /\ UNCHANGED <<word, full, decoded, prediction, parse, str_repr, parsed,
                   data, num, train_part, max_len, raised, sc>>

TransformClassification ==
    /\ pc = "simple"
    /\ decoded' = transform_classification(simple)
    /\ pc' = "decoded"
    /\ UNCHANGED <<word, full, simple, prediction, parse, str_repr, parsed,
                   data, num, train_part, max_len, raised, sc>>

NextCodec ==
    \/ AppendMorpheme
    \/ GetLabels
    \/ GetSimpleLabels
    \/ TransformClassification

SpecCodec == InitCodec /\ [][NextCodec]_vars

-----------------------------------------------------------------------------
(* MorphemModel.classify on one word: the classifier's class ids, cut to   *)
(* the word's length, are mapped back to simple labels and decoded         *)

InitClassify ==
    /\ pc = "predicted"
    /\ prediction \in UNION {[1..n -> 0..10] : n \in 0..MaxParse}
    /\ parse = NoResult
    /\ CodecIdle /\ ParseIdle /\ IngestIdle /\ ScoreIdle
    /\ raised = "none"

raw_parse(cutted_prediction) ==
    [i \in 1..Len(cutted_prediction) |-> reverse_mapping(cutted_prediction[i])]

Classify ==
    /\ pc = "predicted"
    /\ parse' = transform_classification(raw_parse(prediction))
    /\ pc' = "classified"
    /\ UNCHANGED <<word, full, simple, decoded, prediction, str_repr, parsed,
                   data, num, train_part, max_len, raised, sc>>

NextClassify == Classify

SpecClassify == InitClassify /\ [][NextClassify]_vars

-----------------------------------------------------------------------------
(* Properties of the codec *)

Kinds == MorphemeLabel \ {"NONE"}

\* at least one morpheme, every text non-empty, every kind one of the eight
WellFormedWord(w) ==
    /\ Len(w.morphemes) >= 1
    /\ \A i \in 1..Len(w.morphemes) :
          w.morphemes[i].length >= 1 /\ w.morphemes[i].label \in Kinds

\* the kinds whose simple encoding has no begin marker
FlatKinds == Kinds \ {"SUFF", "PREF", "ROOT"}

NoAdjacentFlatPair(w) ==
    \A i \in 1..(Len(w.morphemes) - 1) :
        ~( w.morphemes[i].label = w.morphemes[i + 1].label
           /\ w.morphemes[i].label \in FlatKinds )

\* C1 as stated: for every well-formed Word, whatever the sequence of kinds and
\* lengths, decoding the simple encoding gives the full encoding exactly.
C1_RoundTripAnyKinds ==
    (pc = "decoded" /\ WellFormedWord(word)) => decoded = full

\* C1 amended: for every well-formed Word in which no two adjacent morphemes have
\* the same kind among UNKN, END, LINK, HYPH, POSTFIX, decoding the simple encoding
\* gives the full encoding exactly.
C1_RoundTrip ==
    (pc = "decoded" /\ WellFormedWord(word) /\ NoAdjacentFlatPair(word))
        => /\ decoded.outcome = "returned"
           /\ decoded = full

\* two adjacent suffixes, one of three letters and one of one, decoded
C1_Witness ==
    /\ pc = "decoded"
    /\ Len(word.morphemes) = 2
    /\ word.morphemes[1].label = "SUFF" /\ word.morphemes[1].length = 3
    /\ word.morphemes[2].label = "SUFF" /\ word.morphemes[2].length = 1
    /\ decoded = Ok(<< <<"B", "SUFF">>, <<"M", "SUFF">>, <<"E", "SUFF">>, <<"S", "SUFF">> >>)

\* C2 as stated: for every Word W, len(W.get_labels()) == len(W.get_simple_labels())
\* == len(W), the sum of the text lengths, which is the length of W.get_word().
C2_LengthAnyWord ==
    pc \in {"simple", "decoded"} =>
        /\ full.outcome = "returned"
        /\ Len(full.val) = Len(simple)
        /\ Len(simple) = Word_len(word)
        /\ Word_len(word) = Len(Word_get_word(word))

\* The part of C2 the code keeps: for every Word whose morphemes all have a text of
\* length >= 1 and a kind other than NONE, both encodings have len(W) labels, the
\* length of W.get_word().
LengthOfLabelledWords ==
    ( /\ pc \in {"simple", "decoded"}
      /\ \A i \in 1..Len(word.morphemes) :
            word.morphemes[i].length >= 1 /\ word.morphemes[i].label \in Kinds )
        => /\ full.outcome = "returned"
           /\ Len(full.val) = Len(simple)
           /\ Len(simple) = Word_len(word)
           /\ Word_len(word) = Len(Word_get_word(word))

\* a root of three letters and an ending of two, encoded both ways
LengthOfLabelledWords_Witness ==
    /\ pc = "simple"
    /\ Len(word.morphemes) = 2
    /\ word.morphemes[1].label = "ROOT" /\ word.morphemes[1].length = 3
    /\ word.morphemes[2].label = "END" /\ word.morphemes[2].length = 2
    /\ Len(full.val) = 5 /\ Len(simple) = 5

-----------------------------------------------------------------------------
(* Properties of the decoder on any classifier output *)

Bare(l) == IF startswith_B(l) THEN Tail(l) ELSE l

\* a concatenation of segments S-k or B-k M-k* E-k
WellFormedFull(out) ==
    /\ \A i \in 1..Len(out) : Len(out[i]) = 2 /\ out[i][1] \in {"S", "B", "M", "E"}
    /\ out # <<>> => out[1][1] \in {"S", "B"} /\ out[Len(out)][1] \in {"S", "E"}
    /\ \A i \in 1..(Len(out) - 1) :
          IF out[i][1] \in {"B", "M"}
          THEN out[i + 1][1] \in {"M", "E"} /\ out[i + 1][2] = out[i][2]
          ELSE out[i + 1][1] \in {"S", "B"}

\* C10: for every non-empty sequence over the 11 simple labels the decoder returns
\* a sequence of the same length made of segments S-k or B-k M-k* E-k, whose kind
\* at every position is the input label there with any B- prefix removed.
C10_DecoderWellFormed ==
    (pc = "classified" /\ prediction # <<>>) =>
        /\ parse.outcome = "returned"
        /\ Len(parse.val) = Len(prediction)
        /\ WellFormedFull(parse.val)
        /\ \A i \in 1..Len(prediction) :
              Tail(parse.val[i]) = Bare(raw_parse(prediction)[i])

\* an output no encoder produces, ROOT B-ROOT ROOT, decoded to S-ROOT B-ROOT E-ROOT
C10_Witness ==
    /\ pc = "classified"
    /\ raw_parse(prediction) = << <<"ROOT">>, <<"B", "ROOT">>, <<"ROOT">> >>
    /\ parse = Ok(<< <<"S", "ROOT">>, <<"B", "ROOT">>, <<"E", "ROOT">> >>)

-----------------------------------------------------------------------------
(* parse_word on one line *)

RECURSIVE Join(_, _)
Join(pieces, sep) ==
    IF Len(pieces) = 0 THEN <<>>
    ELSE IF Len(pieces) = 1 THEN pieces[1]
    ELSE pieces[1] \o <<sep>> \o Join(Tail(pieces), sep)

Wordforms == { <<"a">>, <<"a", "b">>, <<"a", ":", "b">>, <<"a", "/", "b">> }

\* text:KIND tokens, and tokens that are none
PartTokens ==
    { text \o <<":", kind>> : text \in Texts, kind \in {"ROOT", "END"} }
    \cup { <<"a">>, <<"a", ":", "BAD">>, <<"a", ":", "ROOT", ":", "END">> }

MorphemeSpecs ==
    UNION { { Join(ps, "/") : ps \in [1..n -> PartTokens] } : n \in 1..MaxMorphemes }

PosTags == { <<"NOUN">>, <<"a", ":">> }

ClassInfos == { <<"ADJ">>, <<"x", "ADVERB">>, <<"PART", "NOUN">>, <<"x">>, <<>> }

\* the lines of one, two, three, four and five fields made of these fields
ParseLines(w, m, t, c) ==
    { w,
      Join(<<w, m>>, TAB),
      Join(<<w, m, t>>, TAB),
      Join(<<w, m, t, c>>, TAB),
      Join(<<w, m, t, c, <<"x">> >>, TAB) }

InitParse ==
    /\ pc = "line"
    /\ \E w \in Wordforms, m \in MorphemeSpecs, t \in PosTags, c \in ClassInfos :
          str_repr \in ParseLines(w, m, t, c)
    /\ parsed = NoResult
    /\ CodecIdle /\ ClassifyIdle /\ IngestIdle /\ ScoreIdle
    /\ raised = "none"

ParseWord ==
    /\ pc = "line"
    /\ parsed' = parse_word(str_repr)
    /\ pc' = "parsed"
    /\ UNCHANGED <<word, full, simple, decoded, prediction, parse, str_repr,
                   data, num, train_part, max_len, raised, sc>>

NextParse == ParseWord

SpecParse == InitParse /\ [][NextParse]_vars

\* C3: the morphemes of every Word parse_word returns start at zero and are
\* contiguous: morphemes[0].begin_pos == 0, morphemes[i].end_pos ==
\* morphemes[i+1].begin_pos, end_pos = begin_pos + length of the text.
C3_Contiguous ==
    (pc = "parsed" /\ parsed.outcome = "returned") =>
        LET ms == parsed.val.morphemes IN
        /\ ms[1].begin_pos = 0
        /\ \A i \in 1..Len(ms) : ms[i].end_pos = ms[i].begin_pos + Len(ms[i].part_text)
        /\ \A i \in 1..(Len(ms) - 1) : ms[i].end_pos = ms[i + 1].begin_pos

FieldsOf(line) == Split(line, TAB)

AmbiguousLine(line) ==
    /\ Len(FieldsOf(line)) \in 2..4
    /\ \E i \in 1..Len(FieldsOf(line)[1]) : FieldsOf(line)[1][i] \in {":", "/"}

NoKnownClass(line) ==
    /\ Len(FieldsOf(line)) = 4
    /\ \A i \in 1..Len(FieldsOf(line)[4]) :
          FieldsOf(line)[4][i] \notin {"ADJ", "VERB", "NOUN", "GRND", "ADV", "PART", "ADVERB"}

\* C4 as stated: a line of 2, 3 or 4 fields whose wordform contains ':' or '/' is
\* rejected as ambiguous (parse_word returns no Word), whatever the other fields.
C4_AmbiguousAnyFields ==
    (pc = "parsed" /\ AmbiguousLine(str_repr)) => parsed = ReturnedNone

\* C4 amended: a line of 2 or 3 fields, or of 4 fields whose class_info contains
\* one of ADJ, VERB, NOUN, GRND, ADV, PART, whose wordform contains ':' or '/' is
\* rejected as ambiguous (parse_word returns None) whatever the morpheme spec and
\* the pos tag; a line of 4 fields whose class_info contains none of the six raises
\* Exception("Unknown class") although its wordform contains ':' or '/'.
C4_Ambiguous ==
    (pc = "parsed" /\ AmbiguousLine(str_repr)) =>
        IF NoKnownClass(str_repr)
        THEN parsed = Raise("Exception: Unknown class")
        ELSE parsed = ReturnedNone

\* a line of four fields, a '/' in its wordform and an unknown morpheme kind
C4_Witness ==
    /\ pc = "parsed"
    /\ str_repr = <<"a", "/", "b", TAB, "a", ":", "BAD", TAB, "NOUN", TAB, "x", "ADVERB">>
    /\ parsed = ReturnedNone

-----------------------------------------------------------------------------
(* Ingestion of the train set: the loop over the lines of the file *)

GoodLine2 == <<"a", "b", TAB, "a", ":", "ROOT", "/", "b", ":", "END", NL>>

GoodLine3 == <<"a", TAB, "a", ":", "ROOT", TAB, "NOUN", NL>>

GoodLine4 == <<"a", TAB, "a", ":", "SUFF", TAB, "x", TAB, "ADJ", NL>>

TrailingTabLine == <<"a", TAB, "a", ":", "PREF", TAB, NL>>

AmbiguousWordformLine == <<"a", ":", "b", TAB, "a", ":", "ROOT", NL>>

OneFieldLine == <<"a", NL>>

UnknownKindLine == <<"a", TAB, "a", ":", "BAD", NL>>

UnknownClassLine == <<"a", TAB, "a", ":", "ROOT", TAB, "x", TAB, "x", NL>>

CorpusLines ==
    { GoodLine2, GoodLine3, GoodLine4, TrailingTabLine, AmbiguousWordformLine,
      OneFieldLine, UnknownKindLine, UnknownClassLine }

InitIngest ==
    /\ pc = "loading"
    /\ data \in UNION { [1..n -> CorpusLines] : n \in 0..MaxLines }
    /\ num = 0 /\ train_part = <<>> /\ max_len = 0
    /\ raised = "none"
    /\ CodecIdle /\ ClassifyIdle /\ ParseIdle /\ ScoreIdle

\* one turn of the loop
ReadLine ==
    /\ pc = "loading"
    /\ num < Len(data)
    /\ num' = num + 1
    /\ LET w == parse_word(Strip(data[num + 1])) IN
       IF w.outcome = "None"
       THEN UNCHANGED <<pc, train_part, max_len, raised>>
       ELSE IF w.outcome = "returned"
       THEN /\ train_part' = Append(train_part, w.val)
            /\ max_len' = Max(max_len, Word_len(w.val))
            /\ UNCHANGED <<pc, raised>>
       ELSE /\ pc' = "aborted"
            /\ raised' = w.outcome
            /\ UNCHANGED <<train_part, max_len>>
    /\ UNCHANGED <<word, full, simple, decoded, prediction, parse, str_repr, parsed,
                   data, sc>>

\* the file is exhausted
EndOfFile ==
    /\ pc = "loading"
    /\ num = Len(data)
    /\ pc' = "loaded"
    /\ UNCHANGED <<word, full, simple, decoded, prediction, parse, str_repr, parsed,
                   data, num, train_part, max_len, raised, sc>>

NextIngest == ReadLine \/ EndOfFile

SpecIngest == InitIngest /\ [][NextIngest]_vars

\* the lines of the file that are well formed, parsed, in file order
RECURSIVE WellFormedWords(_)
WellFormedWords(lines) ==
    IF lines = <<>> THEN <<>>
    ELSE LET w == parse_word(Strip(Head(lines))) IN
         (IF w.outcome = "returned" THEN <<w.val>> ELSE <<>>)
         \o WellFormedWords(Tail(lines))

\* C5: ingestion is per-line recoverable: a line with a wrong field count, an
\* unrecognized kind or an ambiguous wordform is skipped and ingestion goes on,
\* so that it ends with every well-formed line of the file loaded, in file order.
C5_PerLineRecoverable ==
    pc \in {"loaded", "aborted"} => train_part = WellFormedWords(data)

-----------------------------------------------------------------------------
(* measure_quality on a dataset: the loop over the words, then the quotients *)

ScoreLines ==
    { <<"a", "a", "a", TAB, "a", "a", "a", ":", "ROOT">>,
      <<"a", "a", "a", TAB, "a", ":", "PREF", "/", "a", "a", ":", "ROOT">>,
      <<"a", "a", "a", TAB, "a", "a", ":", "ROOT", "/", "a", ":", "END">>,
      <<"-", TAB, "-", ":", "HYPH">> }

ScoreWords == { parse_word(line).val : line \in ScoreLines }

\* label sequences a decoded classification can be
ScoreLabels == { Word_get_labels(w).val : w \in ScoreWords }

InitScore ==
    /\ pc = "scoring"
    /\ \E ws \in UNION { [1..n -> ScoreWords] : n \in 0..MaxWords } :
       \E nwords \in 0..Len(ws), ntargets \in 0..Len(ws) :
       \E predicted \in UNION { [1..n -> ScoreLabels] : n \in 0..MaxWords } :
          sc = [ called            |-> TRUE,
                 predicted_targets |-> predicted,
                 targets           |-> [k \in 1..ntargets |-> Word_get_labels(ws[k]).val],
                 words             |-> SubSeq(ws, 1, nwords),
                 i                 |-> 0,
                 TP |-> 0, FP |-> 0, FN |-> 0, equal |-> 0, total |-> 0,
                 corr_words        |-> 0,
                 boundaries        |-> <<>>,
                 pred_boundaries   |-> <<>>,
                 results           |-> NoResult ]
    /\ raised = "none"
    /\ CodecIdle /\ ClassifyIdle /\ ParseIdle /\ IngestIdle

\* one turn of the loop over zip(targets, predicted_targets, words)
ScoreWord ==
    /\ pc = "scoring"
    /\ sc.i < ZipLen(sc.targets, sc.predicted_targets, sc.words)
    /\ LET corr == sc.targets[sc.i + 1]
           pred == sc.predicted_targets[sc.i + 1]
           c    == WordCounts(corr, pred)
       IN  sc' = [sc EXCEPT
                    !.i = @ + 1,
                    !.boundaries = c.boundaries,
                    !.pred_boundaries = c.pred_boundaries,
                    !.TP = @ + c.TP,
                    !.FN = @ + c.FN,
                    !.FP = @ + c.FP,
                    !.equal = @ + EqualCount(corr, pred),
                    !.total = @ + Len(corr),
                    !.corr_words = @ + (IF corr = pred THEN 1 ELSE 0)]
    /\ UNCHANGED <<pc, word, full, simple, decoded, prediction, parse, str_repr, parsed,
                   data, num, train_part, max_len, raised>>

\* after the loop: the five quotients, or the division by zero
ComputeMetrics ==
    /\ pc = "scoring"
    /\ sc.i = ZipLen(sc.targets, sc.predicted_targets, sc.words)
    /\ IF \E name \in MetricNames : Metrics(sc)[name].d = 0
       THEN /\ pc' = "raised"
            /\ raised' = "ZeroDivisionError"
            /\ sc' = [sc EXCEPT !.results = Raise("ZeroDivisionError")]
       ELSE /\ pc' = "returned"
            /\ sc' = [sc EXCEPT !.results = Ok(Metrics(sc))]
            /\ UNCHANGED raised
    /\ UNCHANGED <<word, full, simple, decoded, prediction, parse, str_repr, parsed,
                   data, num, train_part, max_len>>

NextScore == ScoreWord \/ ComputeMetrics

SpecScore == InitScore /\ [][NextScore]_vars

\* the boundary index sets of a label sequence, as the scorer reads them
BoundarySet(labels) == { i \in 0..(Len(labels) - 1) : labels[i + 1] \in SE }

G(k) == BoundarySet(sc.targets[k])

P(k) == BoundarySet(sc.predicted_targets[k])

SumTo(n, f(_)) == SumSeq([k \in 1..n |-> f(k)])

TruePositives(k) == Cardinality(G(k) \cap P(k))

FalseNegatives(k) == Cardinality(G(k)) - Cardinality(G(k) \cap P(k))

FalsePositives(k) == Cardinality(P(k)) - Cardinality(G(k) \cap P(k))

GoldBoundaries(k) == Cardinality(G(k))

PredictedBoundaries(k) == Cardinality(P(k))

Aligned ==
    /\ Len(sc.predicted_targets) = Len(sc.targets)
    /\ Len(sc.words) = Len(sc.targets)

\* C6: each word adds |G \cap P| to TP, |G| - |G \cap P| to FN and |P| - |G \cap P|
\* to FP, G and P its gold and predicted boundary index sets, each over its own
\* length; after all words TP+FN is the number of gold boundaries and TP+FP the
\* number of predicted boundaries of the dataset, and Precision, Recall and F1 are
\* quotients of these sums.
C6_CountsPerWord ==
    /\ sc.TP = SumTo(sc.i, TruePositives)
    /\ sc.FN = SumTo(sc.i, FalseNegatives)
    /\ sc.FP = SumTo(sc.i, FalsePositives)
    /\ pc \in {"returned", "raised"} =>
          /\ Aligned => sc.i = Len(sc.targets)
          /\ sc.TP + sc.FN = SumTo(sc.i, GoldBoundaries)
          /\ sc.TP + sc.FP = SumTo(sc.i, PredictedBoundaries)
    /\ pc = "returned" =>
          LET tp == SumTo(sc.i, TruePositives)
              fn == SumTo(sc.i, FalseNegatives)
              fp == SumTo(sc.i, FalsePositives)
          IN  /\ sc.results.val.Precision = Quotient(tp, tp + fp)
              /\ sc.results.val.Recall = Quotient(tp, tp + fn)
              /\ sc.results.val.F1 = Quotient(2 * tp, 2 * tp + fp + fn)

\* two words scored, of lengths that differ between gold and prediction, with
\* hits, misses and false alarms
C6_Witness ==
    /\ pc = "returned"
    /\ Aligned /\ sc.i = 2
    /\ \E k \in 1..2 : Len(sc.targets[k]) # Len(sc.predicted_targets[k])
    /\ sc.TP >= 1 /\ sc.FN >= 1 /\ sc.FP >= 1

IsOne(q) == q.d # 0 /\ q.n = q.d

\* C7: for a non-empty dataset of full label sequences of Words, scored against
\* itself, Precision = Recall = F1 = Accuracy = Word accuracy = 1.0.
C7_IdenticalInputs ==
    ( /\ pc \in {"returned", "raised"}
      /\ sc.targets # <<>>
      /\ sc.predicted_targets = sc.targets
      /\ Len(sc.words) = Len(sc.targets) )
        => /\ pc = "returned"
           /\ \A name \in MetricNames : IsOne(sc.results.val[name])

\* C8: with predicted, gold and words sequences that do not all have the same
\* number of entries, the call fails and returns no metrics.
C8_NoMetricsOnMismatch ==
    ~Aligned => pc # "returned"

\* C9: in the labels of a Word, the scorer's boundaries are exactly the positions
\* marked S- or E-, the last letters of the morphemes, whatever the kind.
C9_BoundariesAreMorphemeEnds ==
    (sc.called /\ sc.i >= 1) =>
        { sc.boundaries[j] : j \in 1..Len(sc.boundaries) }
            = { i \in 0..(Len(sc.targets[sc.i]) - 1) :
                    sc.targets[sc.i][i + 1][1] \in {"S", "E"} }

====
